---- MODULE Spec2Model ----
(***************************************************************************)
(* A model of src/o1_code.py: the ContentExtractor pipeline                *)
(* (identify_file_type, get_text_from_docs, get_all_docs_as_text behind    *)
(* the filecache decorator).                                               *)
(*                                                                         *)
(* Paths are sequences of components and a component is a sequence of      *)
(* one-character strings, so that str(path).lower(), the substring test    *)
(* and the "*.*" pattern are computed character by character.              *)
(***************************************************************************)
EXTENDS Integers, Sequences, FiniteSets, TLC

VARIABLES
    fs,          \* the ids (indices of FileTable) of the entries that exist on disk
    now,         \* time.time(), in seconds
    ticks,       \* how many times the clock advanced
    ncalls,      \* how many calls of get_all_docs_as_text were made
    pc,          \* "idle" | "body" | "loop" | "store": position of the running call
    cur,         \* the running (or last) call: its instance, its argument, the cache entry it met
    queue,       \* get_text_from_docs: the files still to process (the failing file first, after a failure)
    dict,        \* get_text_from_docs: file_content_dict
    cache,       \* the filecache shelf: key -> [timesig, data]
    ret,         \* what the last call gave its caller
    classified,  \* ids passed to identify_file_type by the running (or last) call
    extracted,   \* ids passed to an extraction routine by the running (or last) call
    inserts,     \* how many assignments file_content_dict[file.name] = ... the running call made
    failedFile,  \* id of the file whose classification, dispatch or extraction raised; 0 if none
    trace,       \* the logger calls and routine calls of the running (or last) call, in program order
    probe,       \* SpecClassify: one (file name, signature) pair and what the two functions made of it
    conv,        \* SpecPdf: the running convert_pdf_to_text calls, one record per thread
    tmpfs,       \* SpecPdf: the temporary files that exist: path -> what was written
    xl,          \* SpecXlsx: the running convert_xlsx_to_text call
    run          \* SpecRunner: the running O1AuditTestRunner call

\* the state of the other components (the PDF routine, the workbook routine, the audit runner)
otherVars == <<conv, tmpfs, xl, run>>

vars == <<fs, now, ticks, ncalls, pc, cur, queue, dict, cache, ret,
          classified, extracted, inserts, failedFile, trace, probe, otherVars>>

-----------------------------------------------------------------------------
(* Bounds of the model *)

MaxFiles == 2
MaxCalls == 2
MaxTicks == 2
MaxPages == 2
MaxSheets == 3
MaxTests == 3
MaxWorkers == 2

(* filecache.filecache(60 * 60) *)
TTL == 3600

-----------------------------------------------------------------------------
(* Characters and strings *)

UpperChars == <<"A","B","C","D","E","F","G","H","I","J","K","L","M",
                "N","O","P","Q","R","S","T","U","V","W","X","Y","Z">>
LowerChars == <<"a","b","c","d","e","f","g","h","i","j","k","l","m",
                "n","o","p","q","r","s","t","u","v","w","x","y","z">>

\* str.lower() on one character
LowerChar(c) ==
    IF \E i \in 1..Len(UpperChars) : UpperChars[i] = c
    THEN LowerChars[CHOOSE i \in 1..Len(UpperChars) : UpperChars[i] = c]
    ELSE c

\* str.lower()
Lower(s) == [i \in 1..Len(s) |-> LowerChar(s[i])]

\* sub in s
Contains(s, sub) ==
    \E i \in 1..(Len(s) - Len(sub) + 1) : SubSeq(s, i, i + Len(sub) - 1) = sub

\* str(path): the components joined by "/"
RECURSIVE Str(_)
Str(p) == IF p = <<>> THEN <<>> ELSE <<"/">> \o Head(p) \o Str(Tail(p))

\* path.name
Name(p) == p[Len(p)]

-----------------------------------------------------------------------------
(* The directory tree the calls run on *)

NoDir == <<>>                         \* None
D1 == << <<"d">> >>                   \* /d

FileTable == <<
    [path |-> D1 \o << <<"a",".","c","s","v">> >>,              kind |-> "file", mime |-> "text/csv"],
    [path |-> D1 \o << <<"x">>, <<"a",".","c","s","v">> >>,     kind |-> "file", mime |-> "text/csv"],
    [path |-> D1 \o << <<"n",".","t","x","t">> >>,              kind |-> "file", mime |-> "text/plain"],
    [path |-> D1 \o << <<"s","c","a","n">> >>,                  kind |-> "file", mime |-> "image/png"],
    [path |-> D1 \o << <<"v",".","1">> >>,                      kind |-> "dir",  mime |-> "inode/directory"],
    [path |-> D1 \o << <<".","D","S","_","S","t","o","r","e">> >>, kind |-> "file", mime |-> "application/octet-stream"],
    [path |-> D1 \o << <<"S","T","O","R","E">>, <<"b",".","p","d","f">> >>, kind |-> "file", mime |-> "application/pdf"],
    [path |-> D1 \o << <<"z",".","z","i","p">> >>,              kind |-> "file", mime |-> "application/zip"],
    [path |-> D1 \o << <<"r",".","p","d","f">> >>,              kind |-> "file", mime |-> "application/pdf"]
>>

FileIds == 1..Len(FileTable)
PathOf(f) == FileTable[f].path
NameOf(f) == Name(PathOf(f))
MimeOf(f) == FileTable[f].mime

-----------------------------------------------------------------------------
(* identify_file_type and the dispatch of get_text_from_docs *)

PDF == "PDF"
IMAGE == "Image"
DOCX == "DOCX"
TXT == "TXT"
EXCEL == "EXCEL"
CSV == "CSV"

Tags == {PDF, IMAGE, DOCX, TXT, EXCEL, CSV}

\* f"{file_type}": the tag as it is formatted into a message
TagChars(tag) ==
    CASE tag = PDF   -> <<"P","D","F">>
      [] tag = IMAGE -> <<"I","m","a","g","e">>
      [] tag = DOCX  -> <<"D","O","C","X">>
      [] tag = TXT   -> <<"T","X","T">>
      [] tag = EXCEL -> <<"E","X","C","E","L">>
      [] tag = CSV   -> <<"C","S","V">>

NoErr == [type |-> "none", subject |-> <<>>]

\* Exception(f"Unsupported file type: {subject}")
Unsupported(subject) == [type |-> "UnsupportedFileType", subject |-> subject]

\* identify_file_type with the legacy spreadsheet signature listed with the CSV signatures
IdentifyFileTypeLegacyExcelAsCsv(name, mime) ==
    IF mime = "application/pdf"
    THEN [ok |-> TRUE, tag |-> PDF, err |-> NoErr]
    ELSE IF mime \in {"image/jpeg", "image/png", "image/gif", "image/tiff"}
    THEN [ok |-> TRUE, tag |-> IMAGE, err |-> NoErr]
    ELSE IF mime = "application/vnd.openxmlformats-officedocument.wordprocessingml.document"
    THEN [ok |-> TRUE, tag |-> DOCX, err |-> NoErr]
    ELSE IF mime = "text/plain"
    THEN [ok |-> TRUE, tag |-> TXT, err |-> NoErr]
    ELSE IF mime = "application/vnd.openxmlformats-officedocument.spreadsheetml.sheet"
    THEN [ok |-> TRUE, tag |-> EXCEL, err |-> NoErr]
    ELSE IF mime \in {"text/csv", "application/csv", "application/vnd.ms-excel"}
    THEN [ok |-> TRUE, tag |-> CSV, err |-> NoErr]
    ELSE [ok |-> FALSE, tag |-> "", err |-> Unsupported(name)]

\* identify_file_type(file_path), with mime = magic.from_file(file_path)
IdentifyFileType(name, mime) ==
    IF mime = "application/pdf"
    THEN [ok |-> TRUE, tag |-> PDF, err |-> NoErr]
    ELSE IF mime \in {"image/jpeg", "image/png", "image/gif", "image/tiff"}
    THEN [ok |-> TRUE, tag |-> IMAGE, err |-> NoErr]
    ELSE IF mime = "application/vnd.openxmlformats-officedocument.wordprocessingml.document"
    THEN [ok |-> TRUE, tag |-> DOCX, err |-> NoErr]
    ELSE IF mime = "text/plain"
    THEN [ok |-> TRUE, tag |-> TXT, err |-> NoErr]
    ELSE IF mime \in {"application/vnd.openxmlformats-officedocument.spreadsheetml.sheet",
                      "application/vnd.ms-excel"}
    THEN [ok |-> TRUE, tag |-> EXCEL, err |-> NoErr]
    ELSE IF mime \in {"text/csv", "application/csv"}
    THEN [ok |-> TRUE, tag |-> CSV, err |-> NoErr]
    ELSE [ok |-> FALSE, tag |-> "", err |-> Unsupported(name)]

\* the if/elif chain of get_text_from_docs: the routine a tag is sent to, or "raise"
Dispatch(tag) ==
    IF tag = PDF THEN "convert_pdf_to_text"
    ELSE IF tag = IMAGE THEN "convert_image_to_text"
    ELSE IF tag = DOCX THEN "extract_text_from_docx"
    ELSE IF tag = EXCEL THEN "convert_xlsx_to_text"
    ELSE IF tag = CSV THEN "csv_to_text"
    ELSE "raise"

\* what an extraction routine returns for file f: the text of f as that routine renders it
Text(routine, f) == [routine |-> routine, file |-> f]

-----------------------------------------------------------------------------
(* get_all_docs_as_text: enumeration and filter *)

IsUnder(dir, p) == Len(p) > Len(dir) /\ SubSeq(p, 1, Len(dir)) = dir

\* the pattern "*.*" on a name: some character of the name is a dot
MatchesStarDotStar(name) == \E i \in 1..Len(name) : name[i] = "."

\* dir_to_use.rglob("*.*"): every entry (file or directory) at any depth whose name matches
RGlob(dir, disk) == {f \in disk : IsUnder(dir, PathOf(f)) /\ MatchesStarDotStar(NameOf(f))}

\* the filter without .lower(): not "store" in str(i)
KeptByFilterCaseSensitive(f) == ~Contains(Str(PathOf(f)), <<"s","t","o","r","e">>)

\* not "store" in str(i).lower()
KeptByFilter(f) == ~Contains(Lower(Str(PathOf(f))), <<"s","t","o","r","e">>)

\* sample_files, as a set
SampleFiles(all) == {f \in all : KeptByFilter(f)}

\* the orders in which a set can be listed
Orders(S) == {s \in [1..Cardinality(S) -> S] : \A i, j \in 1..Cardinality(S) : i # j => s[i] # s[j]}

\* dir_to_use
ResolveDir(self, arg) == IF arg # NoDir THEN arg ELSE self.dir

-----------------------------------------------------------------------------
(* file_content_dict *)

EmptyDict == [n \in {} |-> Text("", 0)]

\* d[name] = text
Put(d, name, text) == [n \in DOMAIN d \cup {name} |-> IF n = name THEN text ELSE d[n]]

-----------------------------------------------------------------------------
(* The callers and the filecache wrapper *)

\* ContentExtractor(_dir): self.dir
E1 == [dir |-> D1]
E0 == [dir |-> NoDir]

\* the calls get_all_docs_as_text(self, _dir) the callers make
Calls == {[self |-> E1, arg |-> NoDir],
          [self |-> E1, arg |-> D1],
          [self |-> E0, arg |-> D1],
          [self |-> E0, arg |-> NoDir]}

\* filecache's key: the function's name and the pickled (args, kwargs), with
\* args = (self, _dir): the instance's state and the argument as passed
ArgsKey(self, arg) == <<self.dir, arg>>

\* the validity test with <= in place of <
FreshInclusive(entry, t) == t - entry.timesig <= TTL

\* time.time() - rv.timesig < seconds_of_validity
Fresh(entry, t) == t - entry.timesig < TTL

\* filecache(seconds_of_validity, fail_silently=False): the default is kept
FailSilently == FALSE

CacheError == [type |-> "CacheError", subject |-> <<>>]

NoRet == [kind |-> "none", value |-> EmptyDict, err |-> NoErr, src |-> "none"]

\* a value returned to the caller
Returned(d, src) == [kind |-> "value", value |-> d, err |-> NoErr, src |-> src]

\* the exception caught inside the loop and the dict built so far returned
PropagatePartial(e, partial) == [kind |-> "value", value |-> partial, err |-> e, src |-> "computed"]

\* an exception that leaves get_text_from_docs, get_all_docs_as_text and the
\* wrapper (none of them catches): the caller gets the exception, the
\* partial file_content_dict is lost
Propagate(e, partial) == [kind |-> "error", value |-> EmptyDict, err |-> e, src |-> "none"]

\* what the entry of key k is to a call made at time t
Meets(k, t) ==
    IF k \notin DOMAIN cache THEN "absent"
    ELSE IF Fresh(cache[k], t) THEN "fresh" ELSE "expired"

KeyOf(c) == ArgsKey(c.self, c.arg)

\* a call starts: the per-call state
Begin(c) ==
    /\ pc = "idle"
    /\ ncalls < MaxCalls
    /\ ncalls' = ncalls + 1
    /\ cur' = [self |-> c.self, arg |-> c.arg, pre |-> Meets(KeyOf(c), now)]
    /\ queue' = <<>>
    /\ dict' = EmptyDict
    /\ classified' = {}
    /\ extracted' = {}
    /\ inserts' = 0
    /\ failedFile' = 0
    /\ trace' = <<>>

\* function_with_cache: the key is in the shelf and its entry is valid
CallHit(c) ==
    /\ Begin(c)
    /\ KeyOf(c) \in DOMAIN cache
    /\ Fresh(cache[KeyOf(c)], now)
    /\ ret' = Returned(cache[KeyOf(c)].data, "cache")
    /\ pc' = "idle"
    /\ UNCHANGED <<fs, now, ticks, cache, probe, otherVars>>

\* function_with_cache: no entry, or an entry past its validity: the function is called
CallMiss(c) ==
    /\ Begin(c)
    /\ \/ KeyOf(c) \notin DOMAIN cache
       \/ /\ KeyOf(c) \in DOMAIN cache
          /\ ~Fresh(cache[KeyOf(c)], now)
    /\ pc' = "body"
    /\ ret' = NoRet
    /\ UNCHANGED <<fs, now, ticks, cache, probe, otherVars>>

\* function_with_cache: reading the shelf raises
CallReadFault(c) ==
    /\ Begin(c)
    /\ IF FailSilently
       THEN pc' = "body" /\ ret' = NoRet
       ELSE pc' = "idle" /\ ret' = Propagate(CacheError, EmptyDict)
    /\ UNCHANGED <<fs, now, ticks, cache, probe, otherVars>>

\* get_all_docs_as_text, lines 139-144, with self.dir and _dir both None:
\* None.rglob raises AttributeError
EnumerateNoDir ==
    /\ pc = "body"
    /\ ResolveDir(cur.self, cur.arg) = NoDir
    /\ ret' = Propagate([type |-> "AttributeError", subject |-> <<>>], EmptyDict)
    /\ pc' = "idle"
    /\ UNCHANGED <<fs, now, ticks, ncalls, cur, queue, dict, cache,
                   classified, extracted, inserts, failedFile, trace, probe, otherVars>>

\* get_all_docs_as_text, lines 139-147: the list handed to get_text_from_docs,
\* in the order rglob happened to yield it
Enumerate ==
    /\ pc = "body"
    /\ ResolveDir(cur.self, cur.arg) # NoDir
    /\ \E order \in Orders(SampleFiles(RGlob(ResolveDir(cur.self, cur.arg), fs))) :
           queue' = order
    /\ pc' = "loop"
    /\ UNCHANGED <<fs, now, ticks, ncalls, cur, dict, cache, ret,
                   classified, extracted, inserts, failedFile, trace, probe, otherVars>>

-----------------------------------------------------------------------------
(* get_text_from_docs: one iteration of the loop per step *)

Classification(f) == IdentifyFileType(NameOf(f), MimeOf(f))

\* logger.info(f"Working on: {file.name}")
LogStart(f) == [e |-> "info_working_on", name |-> NameOf(f), file |-> 0]
\* self.identify_file_type(file)
CallIdentify(f) == [e |-> "identify_file_type", name |-> <<>>, file |-> f]
\* self.convert_...(file)
CallExtract(f) == [e |-> "extract", name |-> <<>>, file |-> f]
\* logger.info(f"Done: {file.name}")
LogDone(f) == [e |-> "info_done", name |-> NameOf(f), file |-> 0]

\* one iteration, in program order: the classification (or the dispatch) raises
EventsNoRoutine(f) == <<LogStart(f), CallIdentify(f)>>
\* the completion marker logged in a finally block
EventsRoutineRaisesLogsDone(f) == <<LogStart(f), CallIdentify(f), CallExtract(f), LogDone(f)>>

\* one iteration, in program order: the routine raises
EventsRoutineRaises(f) == <<LogStart(f), CallIdentify(f), CallExtract(f)>>
\* one iteration, in program order: the routine returns
EventsRoutineReturns(f) == <<LogStart(f), CallIdentify(f), CallExtract(f), LogDone(f)>>

\* the exception caught in the loop: the file is skipped and the loop goes on
RaiseAndContinue(f, e) ==
    /\ failedFile' = f
    /\ queue' = Tail(queue)
    /\ UNCHANGED <<fs, now, ticks, ncalls, pc, cur, dict, cache, ret, inserts, probe, otherVars>>

\* the failed call stored in the cache: the dict built so far, under the call's key
RaiseAndCache(f, e) ==
    /\ failedFile' = f
    /\ ret' = Propagate(e, dict)
    /\ pc' = "idle"
    /\ cache' = Put(cache, KeyOf(cur), [timesig |-> now, data |-> dict])
    /\ UNCHANGED <<fs, now, ticks, ncalls, cur, queue, dict, inserts, probe, otherVars>>

\* the iteration raised: the call ends, the rest of the list is never reached
Raise(f, e) ==
    /\ failedFile' = f
    /\ ret' = Propagate(e, dict)
    /\ pc' = "idle"
    /\ UNCHANGED <<fs, now, ticks, ncalls, cur, queue, dict, cache, inserts, probe, otherVars>>

\* identify_file_type raises
StepUnsupported ==
    /\ pc = "loop" /\ queue # <<>>
    /\ LET f == Head(queue) IN
         /\ ~Classification(f).ok
         /\ classified' = classified \cup {f}
         /\ extracted' = extracted
         /\ trace' = trace \o EventsNoRoutine(f)
         /\ Raise(f, Classification(f).err)

\* the else branch of the dispatch raises
StepDispatchFail ==
    /\ pc = "loop" /\ queue # <<>>
    /\ LET f == Head(queue) IN
         /\ Classification(f).ok
         /\ Dispatch(Classification(f).tag) = "raise"
         /\ classified' = classified \cup {f}
         /\ extracted' = extracted
         /\ trace' = trace \o EventsNoRoutine(f)
         /\ Raise(f, Unsupported(TagChars(Classification(f).tag)))

\* the routine returns: file_content_dict[file.name] = text
StepExtractOk ==
    /\ pc = "loop" /\ queue # <<>>
    /\ LET f == Head(queue) IN
         /\ Classification(f).ok
         /\ Dispatch(Classification(f).tag) # "raise"
         /\ classified' = classified \cup {f}
         /\ extracted' = extracted \cup {f}
         /\ dict' = Put(dict, NameOf(f), Text(Dispatch(Classification(f).tag), f))
         /\ inserts' = inserts + 1
         /\ queue' = Tail(queue)
         /\ trace' = trace \o EventsRoutineReturns(f)
    /\ UNCHANGED <<fs, now, ticks, ncalls, pc, cur, cache, ret, failedFile, probe, otherVars>>

\* the routine raises (a decoder, the OCR engine, the workbook parser): the
\* library's exception, whose message may or may not hold the file's name
StepExtractFail ==
    /\ pc = "loop" /\ queue # <<>>
    /\ LET f == Head(queue) IN
         /\ Classification(f).ok
         /\ Dispatch(Classification(f).tag) # "raise"
         /\ classified' = classified \cup {f}
         /\ extracted' = extracted \cup {f}
         /\ trace' = trace \o EventsRoutineRaises(f)
         /\ \E named \in BOOLEAN :
                Raise(f, [type |-> "ExtractionError",
                          subject |-> IF named THEN NameOf(f) ELSE <<>>])

\* return file_content_dict; return text_dict
ReturnDict ==
    /\ pc = "loop" /\ queue = <<>>
    /\ pc' = "store"
    /\ UNCHANGED <<fs, now, ticks, ncalls, cur, queue, dict, cache, ret,
                   classified, extracted, inserts, failedFile, trace, probe, otherVars>>

\* function_with_cache: function._db[key] = _retval(time.time(), retval); return retval
StoreOk ==
    /\ pc = "store"
    /\ cache' = Put(cache, KeyOf(cur), [timesig |-> now, data |-> dict])
    /\ ret' = Returned(dict, "computed")
    /\ pc' = "idle"
    /\ UNCHANGED <<fs, now, ticks, ncalls, cur, queue, dict,
                   classified, extracted, inserts, failedFile, trace, probe, otherVars>>

\* function_with_cache: writing the shelf raises
StoreFault ==
    /\ pc = "store"
    /\ ret' = IF FailSilently THEN Returned(dict, "computed")
                              ELSE Propagate(CacheError, dict)
    /\ pc' = "idle"
    /\ UNCHANGED <<fs, now, ticks, ncalls, cur, queue, dict, cache,
                   classified, extracted, inserts, failedFile, trace, probe, otherVars>>

\* time passes, between two calls or while a call computes
TickSteps == {1, TTL - 1}

Tick ==
    /\ pc \in {"idle", "store"}
    /\ ticks < MaxTicks
    /\ \E d \in TickSteps : now' = now + d
    /\ ticks' = ticks + 1
    /\ UNCHANGED <<fs, ncalls, pc, cur, queue, dict, cache, ret,
                   classified, extracted, inserts, failedFile, trace, probe, otherVars>>

-----------------------------------------------------------------------------
(* The extractor's specification *)

\* the other components, not running
PdfIdle ==
    /\ conv = <<>>
    /\ tmpfs = [dirs |-> {}, files |-> <<>>]

XlsxIdle == xl = <<>>

RunnerIdle == run = <<>>

OthersIdle == PdfIdle /\ XlsxIdle /\ RunnerIdle

ProbeIdle == [name |-> <<>>, mime |-> "", stage |-> "off", tag |-> "", routine |-> "", err |-> NoErr]

Init ==
    /\ fs \in {S \in SUBSET FileIds : Cardinality(S) <= MaxFiles}
    /\ now = 0
    /\ ticks = 0
    /\ ncalls = 0
    /\ pc = "idle"
    /\ cur = [self |-> E0, arg |-> NoDir, pre |-> "absent"]
    /\ queue = <<>>
    /\ dict = EmptyDict
    /\ cache = [k \in {} |-> [timesig |-> 0, data |-> EmptyDict]]
    /\ ret = NoRet
    /\ classified = {}
    /\ extracted = {}
    /\ inserts = 0
    /\ failedFile = 0
    /\ trace = <<>>
    /\ probe = ProbeIdle
    /\ OthersIdle

Next ==
    \/ \E c \in Calls : CallHit(c)
    \/ \E c \in Calls : CallMiss(c)
    \/ \E c \in Calls : CallReadFault(c)
    \/ EnumerateNoDir
    \/ Enumerate
    \/ StepUnsupported
    \/ StepDispatchFail
    \/ StepExtractOk
    \/ StepExtractFail
    \/ ReturnDict
    \/ StoreOk
    \/ StoreFault
    \/ Tick

Spec == Init /\ [][Next]_vars

-----------------------------------------------------------------------------
(* identify_file_type and the dispatch, on every signature: SpecClassify *)

ProbeNames == { <<"a",".","c","s","v">>, <<"s","c","a","n">>,
                <<"n",".","t","x","t">>, <<"z",".","p","d","f">> }

TableMimes == {"application/pdf", "image/jpeg", "image/png", "image/gif", "image/tiff",
               "application/vnd.openxmlformats-officedocument.wordprocessingml.document",
               "text/plain",
               "application/vnd.openxmlformats-officedocument.spreadsheetml.sheet",
               "application/vnd.ms-excel", "text/csv", "application/csv"}

OtherMimes == {"application/zip", "application/octet-stream", "inode/directory",
               "text/html", "application/msword"}

ProbeMimes == TableMimes \cup OtherMimes

\* file_type = self.identify_file_type(file) returns
ProbeClassifyOk ==
    /\ probe.stage = "new"
    /\ IdentifyFileType(probe.name, probe.mime).ok
    /\ probe' = [probe EXCEPT !.stage = "classified",
                              !.tag = IdentifyFileType(probe.name, probe.mime).tag]
    /\ UNCHANGED <<fs, now, ticks, ncalls, pc, cur, queue, dict, cache, ret,
                   classified, extracted, inserts, failedFile, trace, otherVars>>

\* file_type = self.identify_file_type(file) raises
ProbeClassifyRaise ==
    /\ probe.stage = "new"
    /\ ~IdentifyFileType(probe.name, probe.mime).ok
    /\ probe' = [probe EXCEPT !.stage = "classify_raised",
                              !.err = IdentifyFileType(probe.name, probe.mime).err]
    /\ UNCHANGED <<fs, now, ticks, ncalls, pc, cur, queue, dict, cache, ret,
                   classified, extracted, inserts, failedFile, trace, otherVars>>

\* the if/elif chain reaches a routine
ProbeDispatchOk ==
    /\ probe.stage = "classified"
    /\ Dispatch(probe.tag) # "raise"
    /\ probe' = [probe EXCEPT !.stage = "dispatched", !.routine = Dispatch(probe.tag)]
    /\ UNCHANGED <<fs, now, ticks, ncalls, pc, cur, queue, dict, cache, ret,
                   classified, extracted, inserts, failedFile, trace, otherVars>>

\* the if/elif chain reaches its else
ProbeDispatchRaise ==
    /\ probe.stage = "classified"
    /\ Dispatch(probe.tag) = "raise"
    /\ probe' = [probe EXCEPT !.stage = "dispatch_raised",
                              !.err = Unsupported(TagChars(probe.tag))]
    /\ UNCHANGED <<fs, now, ticks, ncalls, pc, cur, queue, dict, cache, ret,
                   classified, extracted, inserts, failedFile, trace, otherVars>>

InitClassify ==
    /\ fs = {}
    /\ now = 0
    /\ ticks = 0
    /\ ncalls = 0
    /\ pc = "idle"
    /\ cur = [self |-> E0, arg |-> NoDir, pre |-> "absent"]
    /\ queue = <<>>
    /\ dict = EmptyDict
    /\ cache = [k \in {} |-> [timesig |-> 0, data |-> EmptyDict]]
    /\ ret = NoRet
    /\ classified = {}
    /\ extracted = {}
    /\ inserts = 0
    /\ failedFile = 0
    /\ trace = <<>>
    /\ OthersIdle
    /\ \E n \in ProbeNames, m \in ProbeMimes :
           probe = [name |-> n, mime |-> m, stage |-> "new", tag |-> "", routine |-> "", err |-> NoErr]

NextClassify ==
    \/ ProbeClassifyOk
    \/ ProbeClassifyRaise
    \/ ProbeDispatchOk
    \/ ProbeDispatchRaise

SpecClassify == InitClassify /\ [][NextClassify]_vars

-----------------------------------------------------------------------------
(* convert_pdf_to_text, run by two threads at once: SpecPdf *)

\* the extractor of Spec and the probe of SpecClassify, not running
ExtractorIdle ==
    /\ fs = {}
    /\ now = 0
    /\ ticks = 0
    /\ ncalls = 0
    /\ pc = "idle"
    /\ cur = [self |-> E0, arg |-> NoDir, pre |-> "absent"]
    /\ queue = <<>>
    /\ dict = EmptyDict
    /\ cache = [k \in {} |-> [timesig |-> 0, data |-> EmptyDict]]
    /\ ret = NoRet
    /\ classified = {}
    /\ extracted = {}
    /\ inserts = 0
    /\ failedFile = 0
    /\ trace = <<>>
    /\ probe = ProbeIdle

extractorVars == <<fs, now, ticks, ncalls, pc, cur, queue, dict, cache, ret,
                   classified, extracted, inserts, failedFile, trace, probe>>

\* what convert_pdf_to_text leaves alone
notPdf == <<extractorVars, xl, run>>

\* what convert_xlsx_to_text leaves alone
notXlsx == <<extractorVars, conv, tmpfs, run>>

\* what O1AuditTestRunner leaves alone
notRunner == <<extractorVars, conv, tmpfs, xl>>

Threads == {"t1", "t2"}
Pdfs == {"A", "B"}

\* the names tempfile can give a new directory
TmpNames == {"tmp_a", "tmp_b", "tmp_c"}

\* convert_from_path(pdf_path, dpi=300)[k-1]: the image of page k
PageImage(pdf, k) == [pdf |-> pdf, page |-> k]
NoImage == [pdf |-> "", page |-> 0]

\* page_number + 1, with page_number counted from 0 by enumerate
PageLabelZeroBased(page_number) == page_number

PageLabel(page_number) == page_number + 1

\* Path(tmp_dir) / f"page_{page_number + 1}.png"
ImageFilename(tmp_dir, page_number) == <<tmp_dir, "page_", PageLabel(page_number), ".png">>

\* f"--- Page {page_number + 1} ---\n"
Marker(page_number) == [tok |-> "--- Page n ---", n |-> PageLabel(page_number), image |-> NoImage]

\* pytesseract.image_to_string(image): the text recognized on that image
OcrText(image) == [tok |-> "text", n |-> 0, image |-> image]

FilesUnder(dir) == {q \in DOMAIN tmpfs.files : q[1] = dir}

\* the temporary files without directory dir and what it holds
RemoveTree(dir) ==
    [dirs |-> tmpfs.dirs \ {dir},
     files |-> [q \in DOMAIN tmpfs.files \ FilesUnder(dir) |-> tmpfs.files[q]]]

\* pages = convert_from_path(pdf_path, dpi=300); extracted_text = ""
PdfRasterize(t) ==
    /\ conv[t].pc = "start"
    /\ conv' = [conv EXCEPT ![t].pc = "enter"]
    /\ UNCHANGED <<tmpfs, notPdf>>

\* convert_from_path raises: no temporary directory was made
PdfRasterizeFail(t) ==
    /\ conv[t].pc = "start"
    /\ conv' = [conv EXCEPT ![t].pc = "raised"]
    /\ UNCHANGED <<tmpfs, notPdf>>

\* a directory of the one fixed name, shared by the calls
PdfEnterFixedDir(t) ==
    /\ conv[t].pc = "enter"
    /\ tmpfs' = [tmpfs EXCEPT !.dirs = @ \cup {"tmp_a"}]
    /\ conv' = [conv EXCEPT ![t].pc = "loop", ![t].dir = "tmp_a"]
    /\ UNCHANGED notPdf

\* with TemporaryDirectory() as tmp_dir: a new directory, of a name that does not exist
PdfEnter(t) ==
    /\ conv[t].pc = "enter"
    /\ \E d \in TmpNames \ tmpfs.dirs :
          /\ tmpfs' = [tmpfs EXCEPT !.dirs = @ \cup {d}]
          /\ conv' = [conv EXCEPT ![t].pc = "loop", ![t].dir = d]
    /\ UNCHANGED notPdf

\* page.save(image_filename, "PNG")
PdfSave(t) ==
    /\ conv[t].pc = "loop"
    /\ conv[t].i < conv[t].npages
    /\ LET path == ImageFilename(conv[t].dir, conv[t].i)
           content == [by |-> t, image |-> PageImage(conv[t].pdf, conv[t].i + 1)] IN
          /\ tmpfs' = [tmpfs EXCEPT !.files =
                          [q \in DOMAIN tmpfs.files \cup {path} |->
                              IF q = path THEN content ELSE tmpfs.files[q]]]
          /\ conv' = [conv EXCEPT ![t].pc = "ocr",
                                  ![t].wrote = @ \cup {path},
                                  ![t].overwrote = @ \/ (path \in DOMAIN tmpfs.files)]
    /\ UNCHANGED notPdf

\* page.save raises
PdfSaveFail(t) ==
    /\ conv[t].pc = "loop"
    /\ conv[t].i < conv[t].npages
    /\ conv' = [conv EXCEPT ![t].pc = "exit_raise"]
    /\ UNCHANGED <<tmpfs, notPdf>>

\* text = pytesseract.image_to_string(Image.open(image_filename));
\* extracted_text += f"--- Page {page_number + 1} ---\n{text}\n"
PdfOcr(t) ==
    /\ conv[t].pc = "ocr"
    /\ LET path == ImageFilename(conv[t].dir, conv[t].i) IN
          IF path \in DOMAIN tmpfs.files
          THEN conv' = [conv EXCEPT ![t].pc = "loop",
                                    ![t].i = @ + 1,
                                    ![t].read = @ \cup {tmpfs.files[path].by},
                                    ![t].out = @ \o <<Marker(conv[t].i),
                                                      OcrText(tmpfs.files[path].image)>>]
          ELSE conv' = [conv EXCEPT ![t].pc = "exit_raise"]
    /\ UNCHANGED <<tmpfs, notPdf>>

\* Image.open or image_to_string raises
PdfOcrFail(t) ==
    /\ conv[t].pc = "ocr"
    /\ conv' = [conv EXCEPT ![t].pc = "exit_raise"]
    /\ UNCHANGED <<tmpfs, notPdf>>

\* the for loop ends
PdfLoopEnd(t) ==
    /\ conv[t].pc = "loop"
    /\ conv[t].i = conv[t].npages
    /\ conv' = [conv EXCEPT ![t].pc = "exit_ok"]
    /\ UNCHANGED <<tmpfs, notPdf>>

\* the directory removed only when the block ends without an exception
PdfCleanupOnlyOnReturn(t) ==
    /\ conv[t].pc \in {"exit_ok", "exit_raise"}
    /\ tmpfs' = IF conv[t].pc = "exit_ok" THEN RemoveTree(conv[t].dir) ELSE tmpfs
    /\ conv' = [conv EXCEPT ![t].pc = IF conv[t].pc = "exit_ok" THEN "done" ELSE "raised"]
    /\ UNCHANGED notPdf

\* TemporaryDirectory.__exit__: the directory and its files are removed, on return
\* and on an exception alike; then return extracted_text, or the exception goes on
PdfCleanup(t) ==
    /\ conv[t].pc \in {"exit_ok", "exit_raise"}
    /\ tmpfs' = RemoveTree(conv[t].dir)
    /\ conv' = [conv EXCEPT ![t].pc = IF conv[t].pc = "exit_ok" THEN "done" ELSE "raised"]
    /\ UNCHANGED notPdf

InitPdf ==
    /\ ExtractorIdle
    /\ XlsxIdle
    /\ RunnerIdle
    /\ tmpfs = [dirs |-> {}, files |-> <<>>]
    /\ \E n \in [Threads -> 0..MaxPages], d \in [Threads -> Pdfs] :
          conv = [t \in Threads |->
                     [pc |-> "start", pdf |-> d[t], npages |-> n[t], i |-> 0, dir |-> "",
                      out |-> <<>>, wrote |-> {}, read |-> {}, overwrote |-> FALSE]]

NextPdf ==
    \E t \in Threads :
        \/ PdfRasterize(t)
        \/ PdfRasterizeFail(t)
        \/ PdfEnter(t)
        \/ PdfSave(t)
        \/ PdfSaveFail(t)
        \/ PdfOcr(t)
        \/ PdfOcrFail(t)
        \/ PdfLoopEnd(t)
        \/ PdfCleanup(t)

SpecPdf == InitPdf /\ [][NextPdf]_vars

-----------------------------------------------------------------------------
(* convert_xlsx_to_text: SpecXlsx *)

SheetNames == {"a", "b", "c", "d"}

\* the workbooks: the names of the sheets in the order the workbook declares them;
\* a workbook has no two sheets of one name
Books ==
    UNION {{b \in [1..n -> SheetNames] : \A i, j \in 1..n : b[i] = b[j] => i = j} : n \in 0..MaxSheets}

AlphabetRank(name) == CASE name = "a" -> 1 [] name = "b" -> 2 [] name = "c" -> 3 [] OTHER -> 4

\* the sheet names in alphabetical order
SheetNamesSorted(book) == SortSeq(book, LAMBDA m, n : AlphabetRank(m) < AlphabetRank(n))

\* excel_data.sheet_names: the names in the order of the workbook
SheetNamesOf(book) == book

\* pd.read_excel(excel_data, sheet_name=sheet_name): the table of the sheet of that name
ReadExcel(book, sheet_name) == [sheet |-> CHOOSE k \in 1..Len(book) : book[k] = sheet_name]
NoTable == [sheet |-> 0]

\* f"Sheet: {sheet_name}\n"
Header(sheet_name) == [tok |-> "Sheet: name\n", name |-> sheet_name, table |-> NoTable]

\* df.to_string(index=False)
DfToString(df) == [tok |-> "table", name |-> "", table |-> df]

Blank == [tok |-> "\n\n", name |-> "", table |-> NoTable]
Newline == [tok |-> "\n", name |-> "", table |-> NoTable]

\* "\n".join(text_output)
RECURSIVE Join(_)
Join(parts) ==
    IF Len(parts) = 0 THEN <<>>
    ELSE IF Len(parts) = 1 THEN parts
    ELSE <<Head(parts), Newline>> \o Join(Tail(parts))

\* excel_data = pd.ExcelFile(xlsx_path); text_output = []
XlsxOpen ==
    /\ xl.pc = "start"
    /\ xl' = [xl EXCEPT !.pc = "loop", !.names = SheetNamesOf(xl.book)]
    /\ UNCHANGED notXlsx

\* pd.ExcelFile raises
XlsxOpenFail ==
    /\ xl.pc = "start"
    /\ xl' = [xl EXCEPT !.pc = "raised"]
    /\ UNCHANGED notXlsx

\* one turn of the loop: the header, the table of the sheet read by its name, "\n\n"
XlsxSheet ==
    /\ xl.pc = "loop"
    /\ xl.j < Len(xl.names)
    /\ LET sheet_name == xl.names[xl.j + 1]
           df == ReadExcel(xl.book, sheet_name) IN
          xl' = [xl EXCEPT !.j = @ + 1,
                           !.text_output = @ \o <<Header(sheet_name), DfToString(df), Blank>>]
    /\ UNCHANGED notXlsx

\* pd.read_excel or to_string raises after the header was appended
XlsxSheetFail ==
    /\ xl.pc = "loop"
    /\ xl.j < Len(xl.names)
    /\ xl' = [xl EXCEPT !.pc = "raised",
                        !.text_output = @ \o <<Header(xl.names[xl.j + 1])>>]
    /\ UNCHANGED notXlsx

\* return "\n".join(text_output)
XlsxReturn ==
    /\ xl.pc = "loop"
    /\ xl.j = Len(xl.names)
    /\ xl' = [xl EXCEPT !.pc = "returned", !.out = Join(xl.text_output)]
    /\ UNCHANGED notXlsx

InitXlsx ==
    /\ ExtractorIdle
    /\ PdfIdle
    /\ RunnerIdle
    /\ \E b \in Books :
          xl = [pc |-> "start", book |-> b, names |-> <<>>, j |-> 0, text_output |-> <<>>, out |-> <<>>]

NextXlsx ==
    \/ XlsxOpen
    \/ XlsxOpenFail
    \/ XlsxSheet
    \/ XlsxSheetFail
    \/ XlsxReturn

SpecXlsx == InitXlsx /\ [][NextXlsx]_vars

-----------------------------------------------------------------------------
(* O1AuditTestRunner: main, expand_query_using_o1, run_audit: SpecRunner *)

\* None, and an integer, as the value of test_to_run
NoneArg == [isNone |-> TRUE, v |-> 0]
IntArg(i) == [isNone |-> FALSE, v |-> i]

\* the test "test_to_run is not None"
TruthyUnlessNone(arg) == ~arg.isNone

\* the truth value Python gives test_to_run in "if test_to_run:": None and 0 are false
Truthy(arg) == ~arg.isNone /\ arg.v # 0

\* None as a routine or as an execution
NoneVal == [kind |-> "None", of |-> 0]

\* self.raw_test_policies: n policies, each with its name and its content
RawTestPolicies(n) == [k \in 1..n |-> [policy |-> k, content |-> k]]

\* response.choices[0].message.content for the request made of that policy content
RoutineFor(content) == [kind |-> "content", of |-> content]

\* process_testing_script
ProcessTestingScript(test, routine) ==
    [policy |-> test.policy, content |-> test.content, routine |-> routine]

\* expanded_policies as a caller hands them in
GivenPolicies(n) ==
    [k \in 1..n |-> ProcessTestingScript(RawTestPolicies(n)[k], RoutineFor(k))]

\* response.choices[0].message.content for the request made of that test's routine and
\* the documents
ExecutionFor(single_test) == [kind |-> "content", of |-> single_test.policy]

\* run_testing_script
RunTestingScript(single_test, execution) ==
    [policy |-> single_test.policy, routine |-> single_test.routine, execution |-> execution]

\* the indices (from 1) of expanded_policies that main selects
Selected(arg, n) == IF Truthy(arg) THEN <<arg.v + 1>> ELSE [k \in 1..n |-> k]

Range(f) == {f[k] : k \in DOMAIN f}

\* a ThreadPoolExecutor with nothing submitted
NoPool ==
    [inputs |-> <<>>, st |-> <<>>, res |-> <<>>, order |-> <<>>, yielded |-> <<>>, finished |-> <<>>,
     failed |-> {}]

\* executor.map(fn, inputs): every input is submitted, in order
Submit(inputs) ==
    [inputs |-> inputs, st |-> [k \in DOMAIN inputs |-> "queued"], res |-> [k \in DOMAIN inputs |-> NoneVal],
     order |-> <<>>, yielded |-> <<>>, finished |-> <<>>, failed |-> {}]

Running(pool) == {k \in DOMAIN pool.st : pool.st[k] = "running"}
Done(pool) == {k \in DOMAIN pool.st : pool.st[k] = "done"}

\* the tasks whose result the iterator may give next: whichever has completed
NextYieldAsCompleted(pool) == Done(pool) \ Range(pool.order)

\* the task whose result the iterator of executor.map gives next: the first not yet
\* given, once it has completed
NextYield(pool) == {k \in Done(pool) : k = Len(pool.order) + 1}

Finish(pool, k, result) ==
    [pool EXCEPT !.st[k] = "done", !.res[k] = result, !.finished = Append(@, k)]

\* the same for a task whose call of the endpoint raised
FinishFailed(pool, k, result) == [Finish(pool, k, result) EXCEPT !.failed = @ \cup {k}]

\* main: expanded_policies is None, so expand_query_using_o1 is called; it hands
\* every raw policy to executor.map
MainExpand ==
    /\ run.pc = "start"
    /\ ~run.given
    /\ run' = [run EXCEPT !.pc = "expand", !.pool = Submit(RawTestPolicies(run.n))]
    /\ UNCHANGED notRunner

\* main: expanded_policies was handed in
MainGiven ==
    /\ run.pc = "start"
    /\ run.given
    /\ run' = [run EXCEPT !.pc = "select", !.expanded = GivenPolicies(run.n)]
    /\ UNCHANGED notRunner

\* a free worker thread takes the oldest submitted task; in main the task begins by
\* calling run_audit
PoolStart(k) ==
    /\ run.pc \in {"expand", "audit"}
    /\ k \in DOMAIN run.pool.st
    /\ run.pool.st[k] = "queued"
    /\ \A j \in 1..(k - 1) : run.pool.st[j] # "queued"
    /\ Cardinality(Running(run.pool)) < MaxWorkers
    /\ run' = [run EXCEPT !.pool.st[k] = "running",
                          !.audited = IF run.pc = "audit" THEN Append(@, run.sel[k]) ELSE @]
    /\ UNCHANGED notRunner

\* generate_routine returns the answer of the endpoint; process_testing_script returns
GenerateOk(k) ==
    /\ run.pc = "expand"
    /\ k \in Running(run.pool)
    /\ run' = [run EXCEPT !.pool = Finish(@, k,
                  ProcessTestingScript(run.pool.inputs[k], RoutineFor(run.pool.inputs[k].content)))]
    /\ UNCHANGED notRunner

\* generate_routine: the endpoint raises, the exception is printed, the routine is None
GenerateFail(k) ==
    /\ run.pc = "expand"
    /\ k \in Running(run.pool)
    /\ run' = [run EXCEPT !.pool = FinishFailed(@, k, ProcessTestingScript(run.pool.inputs[k], NoneVal))]
    /\ UNCHANGED notRunner

\* run_audit returns the answer of the endpoint; run_testing_script returns
AuditOk(k) ==
    /\ run.pc = "audit"
    /\ k \in Running(run.pool)
    /\ run' = [run EXCEPT !.pool = Finish(@, k,
                  RunTestingScript(run.pool.inputs[k], ExecutionFor(run.pool.inputs[k])))]
    /\ UNCHANGED notRunner

\* run_audit without its except clause: the exception of the endpoint leaves the task
\* and main
AuditFailRaises(k) ==
    /\ run.pc = "audit"
    /\ k \in Running(run.pool)
    /\ run' = [run EXCEPT !.pc = "raised", !.pool.failed = @ \cup {k}]
    /\ UNCHANGED notRunner

\* run_audit: the endpoint raises, the exception is printed, the execution is None
AuditFail(k) ==
    /\ run.pc = "audit"
    /\ k \in Running(run.pool)
    /\ run' = [run EXCEPT !.pool = FinishFailed(@, k, RunTestingScript(run.pool.inputs[k], NoneVal))]
    /\ UNCHANGED notRunner

\* list(executor.map(...)) takes the next result from the iterator
PoolYield ==
    /\ run.pc \in {"expand", "audit"}
    /\ \E k \in NextYield(run.pool) :
          run' = [run EXCEPT !.pool.order = Append(@, k),
                             !.pool.yielded = Append(@, run.pool.res[k])]
    /\ UNCHANGED notRunner

\* expand_query_using_o1: return prompts
ExpandReturn ==
    /\ run.pc = "expand"
    /\ Len(run.pool.yielded) = Len(run.pool.inputs)
    /\ run' = [run EXCEPT !.pc = "select", !.expanded = run.pool.yielded]
    /\ UNCHANGED notRunner

\* main: if test_to_run: _tests = [expanded_policies[test_to_run]] else: _tests =
\* expanded_policies; then every test is handed to executor.map
MainSelect ==
    /\ run.pc = "select"
    /\ LET sel == Selected(run.arg, Len(run.expanded))
           tests == [k \in DOMAIN sel |-> run.expanded[sel[k]]] IN
          run' = [run EXCEPT !.pc = "audit", !.sel = sel, !.tests = tests, !.pool = Submit(tests)]
    /\ UNCHANGED notRunner

\* main: print(results); return results
MainReturn ==
    /\ run.pc = "audit"
    /\ Len(run.pool.yielded) = Len(run.pool.inputs)
    /\ run' = [run EXCEPT !.pc = "returned", !.ret = run.pool.yielded]
    /\ UNCHANGED notRunner

InitRunner ==
    /\ ExtractorIdle
    /\ PdfIdle
    /\ XlsxIdle
    /\ \E n \in 0..MaxTests, g \in BOOLEAN :
          \E a \in {NoneArg} \cup {IntArg(i) : i \in 0..(n - 1)} :
              run = [pc |-> "start", n |-> n, arg |-> a, given |-> g, expanded |-> <<>>,
                     sel |-> <<>>, tests |-> <<>>, pool |-> NoPool, audited |-> <<>>, ret |-> <<>>]

NextRunner ==
    \/ MainExpand
    \/ MainGiven
    \/ \E k \in 1..MaxTests : PoolStart(k)
    \/ \E k \in 1..MaxTests : GenerateOk(k)
    \/ \E k \in 1..MaxTests : GenerateFail(k)
    \/ \E k \in 1..MaxTests : AuditOk(k)
    \/ \E k \in 1..MaxTests : AuditFail(k)
    \/ PoolYield
    \/ ExpandReturn
    \/ MainSelect
    \/ MainReturn

SpecRunner == InitRunner /\ [][NextRunner]_vars

-----------------------------------------------------------------------------
(* Properties *)

\* the path of f, as text, holds "store" in some letter case
HasStoreInPath(f) == Contains(Lower(Str(PathOf(f))), <<"s","t","o","r","e">>)

\* a file of the disk is the source of an entry of mapping d
SourceOfEntry(f, d) == \E n \in DOMAIN d : d[n].file = f

(* C1: every tag identify_file_type returns is dispatched to a routine: a    *)
(* call never ends with the dispatch's unsupported-type error for a file     *)
(* whose classification succeeded (a text/plain file included).              *)
C1_EveryTagDispatched ==
    (failedFile # 0 /\ ret.kind = "error" /\ ret.err.type = "UnsupportedFileType")
        => ~Classification(failedFile).ok

\* the signature table of the classifier, as documented
C2_TableTag(mime) ==
    CASE mime = "application/pdf" -> PDF
      [] mime \in {"image/jpeg", "image/png", "image/gif", "image/tiff"} -> IMAGE
      [] mime = "application/vnd.openxmlformats-officedocument.wordprocessingml.document" -> DOCX
      [] mime = "text/plain" -> TXT
      [] mime \in {"application/vnd.openxmlformats-officedocument.spreadsheetml.sheet",
                   "application/vnd.ms-excel"} -> EXCEL
      [] mime \in {"text/csv", "application/csv"} -> CSV
      [] OTHER -> "none"

(* C2: identify_file_type returns the table's tag for every signature of the *)
(* table and raises an error naming the file for every other signature; the  *)
(* outcome is the same for every file name carrying that signature.          *)
C2_ClassifyByTable ==
    /\ probe.stage \in {"classified", "dispatched", "dispatch_raised"} =>
           /\ C2_TableTag(probe.mime) # "none"
           /\ probe.tag = C2_TableTag(probe.mime)
    /\ probe.stage = "classify_raised" =>
           /\ C2_TableTag(probe.mime) = "none"
           /\ probe.err.type = "UnsupportedFileType"
           /\ probe.err.subject = probe.name
    /\ probe.stage # "off" =>
           \A n \in ProbeNames :
               /\ IdentifyFileType(n, probe.mime).ok = IdentifyFileType(probe.name, probe.mime).ok
               /\ IdentifyFileType(n, probe.mime).tag = IdentifyFileType(probe.name, probe.mime).tag

\* a file named a.csv whose content is a PDF was classified PDF
C2_Witness ==
    /\ probe.stage = "classified"
    /\ probe.name = <<"a",".","c","s","v">>
    /\ probe.mime = "application/pdf"
    /\ probe.tag = PDF

(* C3: once the classification, dispatch or extraction of a file failed, the *)
(* call has ended with an error and without a mapping, however many files    *)
(* were extracted before.                                                    *)
C3_FailureFailsTheCall ==
    failedFile # 0 =>
        /\ pc = "idle"
        /\ ret.kind = "error"
        /\ ret.value = EmptyDict
        /\ ret.err.type \in {"UnsupportedFileType", "ExtractionError"}

\* a call failed on its second file, after the first was extracted and stored in the dict
C3_Witness ==
    /\ failedFile # 0
    /\ inserts >= 1
    /\ dict # EmptyDict
    /\ ret.kind = "error"

(* C4: every error that ends a corpus extraction carries the name of the     *)
(* file it failed on.                                                        *)
C4_ErrorsNameTheFile ==
    (failedFile # 0 /\ ret.kind = "error")
        => Contains(ret.err.subject, NameOf(failedFile))

C6_KeyIsResolvedDir ==
    \A k1, k2 \in DOMAIN cache :
        ResolveDir([dir |-> k1[1]], k1[2]) = ResolveDir([dir |-> k2[1]], k2[2]) => k1 = k2

(* C7: a failure of the cache never fails the call: no call ends with the    *)
(* cache's error, and a call whose extraction completed returns its mapping. *)
C7_CacheFailureNotSurfaced ==
    /\ ret.err.type # "CacheError"
    /\ (pc = "idle" /\ ncalls > 0 /\ failedFile = 0 /\ ret.kind = "error")
           => ret.err.type = "AttributeError"

(* C8: a call that reached the end of its list classified exactly the        *)
(* regular files under the directory that the "store" filter keeps, and      *)
(* nothing but regular files is ever classified.                             *)
C8_ExactlyTheRegularFiles ==
    /\ pc = "store" =>
           classified = {f \in fs : /\ IsUnder(ResolveDir(cur.self, cur.arg), PathOf(f))
                                    /\ FileTable[f].kind = "file"
                                    /\ ~HasStoreInPath(f)}
    /\ \A f \in classified : FileTable[f].kind = "file"

(* C9: when get_text_from_docs returns, the mapping has one entry per        *)
(* extracted file, and each file's entry holds that file's text.             *)
C9_OneEntryPerFile ==
    pc = "store" =>
        /\ Cardinality(DOMAIN dict) = Cardinality(extracted)
        /\ \A f \in extracted : dict[NameOf(f)].file = f

\* the entries of the tree whose path holds "store" in some letter case
C10_StoreFiles == {f \in FileIds : HasStoreInPath(f)}

(* C10: a file whose path holds "store" in any letter case is never          *)
(* classified or extracted, is the source of no entry of any result, and     *)
(* is never the file a call fails on.                                        *)
C10_StoreFilesSkipped ==
    \A f \in fs :
        f \in C10_StoreFiles =>
            /\ f \notin classified
            /\ f \notin extracted
            /\ f # failedFile
            /\ f \notin {queue[i] : i \in 1..Len(queue)}
            /\ ~SourceOfEntry(f, dict)
            /\ ~SourceOfEntry(f, ret.value)
            /\ \A k \in DOMAIN cache : ~SourceOfEntry(f, cache[k].data)

\* a call over a directory that holds a "store" file of unsupported signature
\* returned the mapping of the other files
C10_Witness ==
    /\ pc = "idle"
    /\ ret.kind = "value" /\ ret.src = "computed"
    /\ ret.value # EmptyDict
    /\ \E f \in fs : HasStoreInPath(f) /\ ~IdentifyFileType(NameOf(f), MimeOf(f)).ok


(* C11: a call on a directory that holds no regular file (and whose cache    *)
(* works) returns the empty mapping and classifies and extracts nothing.     *)
C11_EmptyDirectory ==
    ( /\ pc = "idle" /\ ncalls > 0
      /\ ResolveDir(cur.self, cur.arg) # NoDir
      /\ {f \in fs : /\ IsUnder(ResolveDir(cur.self, cur.arg), PathOf(f))
                     /\ FileTable[f].kind = "file"} = {}
      /\ ret.err.type # "CacheError" )
    => /\ ret.kind = "value"
       /\ ret.value = EmptyDict
       /\ classified = {}
       /\ extracted = {}

(* C15: once the classification, dispatch or extraction of a file failed,    *)
(* the call has ended with an error, the last operation that ran is the one   *)
(* that failed, a file whose classification failed reached no routine, and   *)
(* no later file of the list was classified, extracted or logged.            *)
C15_NothingRunsAfterFailure ==
    failedFile # 0 =>
        /\ pc = "idle"
        /\ ret.kind = "error"
        /\ queue # <<>> /\ Head(queue) = failedFile
        /\ trace # <<>>
        /\ trace[Len(trace)] \in {CallIdentify(failedFile), CallExtract(failedFile)}
        /\ ~Classification(failedFile).ok =>
               /\ failedFile \notin extracted
               /\ \A i \in 1..Len(trace) : trace[i] # CallExtract(failedFile)
        /\ \A j \in 2..Len(queue) :
               /\ queue[j] \notin classified \cup extracted
               /\ \A i \in 1..Len(trace) : trace[i].file # queue[j]
        /\ Len(trace) = 4 * inserts + (IF failedFile \in extracted THEN 3 ELSE 2)

\* a call failed on the classification of its first file, with another file still to process
C15_Witness ==
    /\ failedFile # 0
    /\ ~Classification(failedFile).ok
    /\ Len(queue) >= 2
    /\ classified = {failedFile}

(* C16: the start marker of a file is logged right before its                *)
(* classification; the completion marker is logged only right after the      *)
(* file's routine returned (so after its start marker, and never for the     *)
(* file that failed); start and completion markers alternate.                *)
C16_LogMarkers ==
    /\ \A i \in 1..Len(trace) :
          /\ trace[i].e = "identify_file_type" =>
                 /\ i > 1
                 /\ trace[i-1] = LogStart(trace[i].file)
          /\ trace[i].e = "info_working_on" =>
                 /\ i < Len(trace)
                 /\ trace[i+1].e = "identify_file_type"
          /\ trace[i].e = "info_done" =>
                 /\ i >= 4
                 /\ trace[i-1].e = "extract"
                 /\ trace[i-1].file # failedFile
                 /\ trace[i-1].file \in extracted
                 /\ NameOf(trace[i-1].file) = trace[i].name
                 /\ trace[i-2] = CallIdentify(trace[i-1].file)
                 /\ trace[i-3] = LogStart(trace[i-1].file)
          /\ (trace[i].e = "extract" /\ trace[i].file # failedFile) =>
                 /\ i < Len(trace)
                 /\ trace[i+1] = LogDone(trace[i].file)
    /\ \A i, j \in 1..Len(trace) :
          ( /\ i < j
            /\ trace[i].e \in {"info_working_on", "info_done"}
            /\ trace[j].e \in {"info_working_on", "info_done"}
            /\ \A m \in (i+1)..(j-1) : trace[m].e \notin {"info_working_on", "info_done"} )
          => IF trace[i].e = "info_working_on"
             THEN trace[j].e = "info_done" /\ trace[j].name = trace[i].name /\ j = i + 3
             ELSE trace[j].e = "info_working_on" /\ j = i + 1
    /\ \A f \in classified : \E i \in 1..Len(trace) : trace[i] = CallIdentify(f)

\* one file was logged from start to completion, then the routine of the next file raised
C16_Witness ==
    /\ Len(trace) = 7
    /\ failedFile # 0
    /\ failedFile \in extracted
    /\ trace[4].e = "info_done"
    /\ trace[5].e = "info_working_on"

(* C18: the cache changes only when a call that computed its mapping returns *)
(* it, and then only under that call's key; a step that ends a call with a   *)
(* failure leaves the cache as it was, and the next call with the same key   *)
(* runs the function again.                                                  *)
C18_FailedCallLeavesCache ==
    [][ /\ (cache' # cache) =>
              /\ pc = "store" /\ pc' = "idle"
              /\ failedFile = 0
              /\ ret'.kind = "value"
              /\ \A k \in DOMAIN cache \ {KeyOf(cur)} :
                     k \in DOMAIN cache' /\ cache'[k] = cache[k]
        /\ (failedFile' # 0) => cache' = cache
        /\ ( /\ ncalls' = ncalls + 1
             /\ failedFile # 0
             /\ KeyOf(cur') = KeyOf(cur)
             /\ ret'.err.type # "CacheError" )
           => pc' = "body" /\ ret'.kind = "none"
      ]_vars

\* a call failed while the entry another call stored under another key is still there
C18_Witness ==
    /\ failedFile # 0
    /\ extracted # {}
    /\ DOMAIN cache # {}
    /\ KeyOf(cur) \notin DOMAIN cache

\* the call is inside its with block: its temporary directory is in use
InBlock(t) == conv[t].pc \in {"loop", "ocr", "exit_ok", "exit_raise"}

\* C12: for a PDF of any number of pages P >= 0, the text returned holds exactly the
\* page markers 1, 2, ..., P in increasing order, and each marker is immediately
\* followed by the text recognized on that same page; this holds of every prefix
\* built so far as well
C12_PageMarkers ==
    \A t \in Threads :
        /\ Len(conv[t].out) = 2 * conv[t].i
        /\ \A k \in 1..conv[t].i :
              /\ conv[t].out[2 * k - 1].tok = "--- Page n ---"
              /\ conv[t].out[2 * k - 1].n = k
              /\ conv[t].out[2 * k].tok = "text"
              /\ conv[t].out[2 * k].image = [pdf |-> conv[t].pdf, page |-> k]
        /\ conv[t].pc = "done" => conv[t].i = conv[t].npages

\* a conversion of a PDF of several pages has returned its text
C12_Witness ==
    \E t \in Threads :
        /\ conv[t].pc = "done"
        /\ conv[t].npages > 1
        /\ Len(conv[t].out) = 2 * conv[t].npages

\* C13: once convert_pdf_to_text has ended, by returning or by an exception at any
\* page, no file that the call wrote and no directory that it made is left
C13_TempFilesRemoved ==
    \A t \in Threads :
        conv[t].pc \in {"done", "raised"} =>
            /\ \A q \in DOMAIN tmpfs.files : tmpfs.files[q].by # t
            /\ conv[t].dir \in tmpfs.dirs =>
                  \E u \in Threads \ {t} : conv[u].dir = conv[t].dir /\ InBlock(u)

\* a conversion that wrote the images of two pages has ended with an exception
C13_Witness ==
    \E t \in Threads :
        /\ conv[t].pc = "raised"
        /\ Cardinality(conv[t].wrote) > 1

\* C17: the temporary image paths never collide: within one call no page image is
\* written over a file that is there, and two calls that run at the same time, on
\* the same PDF or on different ones, use different directories, write disjoint
\* sets of paths, and each reads only the images it wrote itself
C17_NoCollision ==
    \A t \in Threads :
        /\ ~conv[t].overwrote
        /\ conv[t].read \subseteq {t}
        /\ \A q \in conv[t].wrote : q[1] = conv[t].dir
        /\ \A u \in Threads \ {t} :
              InBlock(t) /\ InBlock(u) =>
                  /\ conv[t].dir # conv[u].dir
                  /\ conv[t].wrote \cap conv[u].wrote = {}

\* two calls on the same PDF hold the image of the same page number on disk at once
C17_Witness ==
    \E t, u \in Threads :
        /\ t # u
        /\ conv[t].pdf = conv[u].pdf
        /\ conv[t].pc = "ocr" /\ conv[u].pc = "ocr"
        /\ conv[t].i = conv[u].i
        /\ conv[t].i > 0
        /\ Cardinality(DOMAIN tmpfs.files) = 2 * (conv[t].i + 1)

\* C14: for a workbook with any sequence of sheets, the text returned holds one
\* "Sheet: <name>" header per sheet, in the order the workbook declares the sheets
\* (not sorted by name), and each header is followed by the table of that same sheet
\* before the header of the next sheet
C14_SheetOrder ==
    xl.pc = "returned" =>
        /\ Len(xl.out) = IF Len(xl.book) = 0 THEN 0 ELSE 6 * Len(xl.book) - 1
        /\ \A k \in 1..Len(xl.book) :
              /\ xl.out[6 * k - 5].tok = "Sheet: name\n"
              /\ xl.out[6 * k - 5].name = xl.book[k]
              /\ xl.out[6 * k - 3].tok = "table"
              /\ xl.out[6 * k - 3].table = [sheet |-> k]
        /\ \A i \in 1..Len(xl.out) :
              /\ xl.out[i].tok = "Sheet: name\n" => i % 6 = 1
              /\ xl.out[i].tok = "table" => i % 6 = 3

\* a workbook whose sheets are declared out of alphabetical order was converted
C14_Witness ==
    /\ xl.pc = "returned"
    /\ Len(xl.book) > 2
    /\ xl.book[1] = "c"
    /\ xl.book[2] = "a"
    /\ Len(xl.out) = 6 * Len(xl.book) - 1

\* C19: main called with test_to_run = i, for every valid index i of
\* expanded_policies including i = 0, runs exactly one audit, the one for
\* expanded_policies[i], and returns a list of exactly one result; only when
\* test_to_run is None does it run every policy
C19_RunsTheOneTest ==
    run.pc = "returned" =>
        IF run.arg.isNone
        THEN /\ Len(run.ret) = Len(run.expanded)
             /\ Range(run.audited) = DOMAIN run.expanded
        ELSE /\ Len(run.ret) = 1
             /\ run.audited = <<run.arg.v + 1>>
             /\ run.ret[1].policy = run.expanded[run.arg.v + 1].policy

\* C20: under every interleaving and completion order of the worker threads, main
\* returns one result per selected test, in the order of the tests, and the k-th
\* result carries the policy and routine of the k-th test together with the
\* execution made for that same test; expand_query_using_o1 likewise returns one
\* entry per raw policy in input order
C20_ResultsInInputOrder ==
    /\ run.pc \in {"expand", "audit", "returned"} =>
          \A j \in 1..Len(run.pool.order) :
              /\ run.pool.order[j] = j
              /\ run.pool.yielded[j].policy = run.pool.inputs[j].policy
    /\ run.pc = "returned" =>
          /\ Len(run.ret) = Len(run.tests)
          /\ \A k \in 1..Len(run.tests) :
                /\ run.ret[k].policy = run.tests[k].policy
                /\ run.ret[k].routine = run.tests[k].routine
                /\ run.ret[k].execution.kind = "content" =>
                       run.ret[k].execution.of = run.tests[k].policy
    /\ run.pc \in {"select", "audit", "returned"} /\ ~run.given =>
          /\ Len(run.expanded) = run.n
          /\ \A k \in 1..run.n :
                /\ run.expanded[k].policy = k
                /\ run.expanded[k].content = k
                /\ run.expanded[k].routine.kind = "content" => run.expanded[k].routine.of = k

\* main has returned several results although a later test completed before the first
C20_Witness ==
    /\ run.pc = "returned"
    /\ ~run.given
    /\ Len(run.ret) > 1
    /\ run.pool.finished[1] # 1
    /\ run.ret[1].execution.kind = "content"

\* C21: a failure of the completion endpoint for one test never aborts main: run_audit
\* raises nothing and yields a None execution for that test, main still returns a
\* result for every selected test, and the executions of the other tests are the
\* answers to their own requests
C21_EndpointFailureNeverAborts ==
    /\ run.pc \in {"start", "expand", "select", "audit", "returned"}
    /\ run.pc = "audit" =>
          \A k \in Done(run.pool) :
              IF k \in run.pool.failed
              THEN run.pool.res[k].execution.kind = "None"
              ELSE run.pool.res[k].execution = [kind |-> "content", of |-> run.tests[k].policy]
    /\ run.pc = "returned" =>
          /\ Len(run.ret) = Len(run.tests)
          /\ \A k \in 1..Len(run.tests) :
                /\ run.ret[k].policy = run.tests[k].policy
                /\ IF k \in run.pool.failed
                   THEN run.ret[k].execution.kind = "None"
                   ELSE run.ret[k].execution = [kind |-> "content", of |-> run.tests[k].policy]

\* main has returned although the endpoint failed for the first of several tests, and
\* the other tests have their executions
C21_Witness ==
    /\ run.pc = "returned"
    /\ Len(run.ret) > 1
    /\ run.pool.failed = {1}
    /\ run.pool.finished[1] = 1
    /\ run.ret[1].execution.kind = "None"
    /\ \A k \in 2..Len(run.ret) : run.ret[k].execution.kind = "content"

====
